---- MODULE Spec2Model ----
(***************************************************************************)
(* ForkMonkey visualizer (src/src/visualizer.py): MonkeyVisualizer renders *)
(* a MonkeyDNA into an SVG document.                                       *)
(*                                                                         *)
(* Representation.  A document is the list svg_parts of generate_svg, one  *)
(* entry per part; a part (fragment) is the sequence of the SVG elements   *)
(* its markup holds, in markup order.  An element is a record              *)
(*   [tag, geom, paint, kids]                                              *)
(* geom:  the interpolated and literal numbers of the element, in markup   *)
(*        order; paint: its other attributes as [k, url, v] records, where *)
(*        url = TRUE stands for the value url(#v); kids: nested elements.  *)
(* A computed opacity (a Python float) is kept exactly, as an integer      *)
(* number of tenths or hundredths in geom.                                 *)
(*                                                                         *)
(* Python integers are unbounded and the seed ranges over 0..16^8-1, so a  *)
(* seed is kept as two base-16^4 limbs [hi, lo] (value hi*16^4 + lo) and   *)
(* every (seed * k) % m is computed by modular arithmetic on the limbs.    *)
(***************************************************************************)
EXTENDS Integers, Sequences, FiniteSets, TLC

VARIABLES
    BODY_COLORS,   \* class attribute MonkeyVisualizer.BODY_COLORS (a dict)
    BACKGROUNDS,   \* class attribute MonkeyVisualizer.BACKGROUNDS (a dict)
    dna,           \* the MonkeyDNA the caller holds
    op,            \* the entry point of the last call ("none" before any)
    width,         \* canvas width of the last call
    height,        \* canvas height of the last call
    seed,          \* the local seed of the last generate_svg call
    result,        \* what the last call returned (or the exception it raised)
    calls          \* number of calls made so far

vars == <<BODY_COLORS, BACKGROUNDS, dna, op, width, height, seed, result, calls>>

(***************************************************************************)
(* Bounds of the model                                                     *)
(***************************************************************************)
MaxHashLen == 9     \* fingerprints of 0..MaxHashLen characters (slice is [:8])
MaxGen == 1         \* generations 0..MaxGen
ScoreDen == 2       \* rarity scores are multiples of 1/ScoreDen in 0..100
MaxCalls == 2       \* calls per session

(***************************************************************************)
(* Sequence and arithmetic helpers                                         *)
(***************************************************************************)
Min(a, b) == IF a < b THEN a ELSE b

Abs(a) == IF a < 0 THEN -a ELSE a

RECURSIVE Concat(_)
Concat(ss) == IF ss = <<>> THEN <<>> ELSE Head(ss) \o Concat(Tail(ss))

\* Python range(a, b, step) for step > 0, as a sequence
Range(a, b, step) ==
    LET n == IF b <= a THEN 0 ELSE ((b - a) + step - 1) \div step
    IN  [k \in 1..n |-> a + (k - 1) * step]

\* Python a // 2 for a >= 0
Half(a) == a \div 2

(***************************************************************************)
(* Elements                                                                *)
(***************************************************************************)
A(k, v) == [k |-> k, url |-> FALSE, v |-> v]

Url(k, id) == [k |-> k, url |-> TRUE, v |-> id]

\* a catalog colour string: a literal colour, or "url(#id)"
Lit(v) == [url |-> FALSE, v |-> v]

Ref(id) == [url |-> TRUE, v |-> id]

\* attribute k="{value}" where value is a catalog colour string
Paint(k, pv) == [k |-> k, url |-> pv.url, v |-> pv.v]

El(tag, geom, paint) == [tag |-> tag, geom |-> geom, paint |-> paint, kids |-> <<>>]

Node(tag, geom, paint, kids) == [tag |-> tag, geom |-> geom, paint |-> paint, kids |-> kids]

\* an exception leaving a renderer: the fragment no renderer returns
ZeroDivisionError == <<El("raise", <<>>, <<A("exception", "ZeroDivisionError")>>)>>

(***************************************************************************)
(* Catalogs: initial values of the class attributes                        *)
(***************************************************************************)
BODY_COLORS_0 ==
    [ brown       |-> [main |-> Lit("#8B4513"), shadow |-> Lit("#5D2E0C"), highlight |-> Lit("#A0522D")],
      tan         |-> [main |-> Lit("#D2B48C"), shadow |-> Lit("#B8956E"), highlight |-> Lit("#E8D4B8")],
      beige       |-> [main |-> Lit("#F5F5DC"), shadow |-> Lit("#D4D4B8"), highlight |-> Lit("#FFFFF0")],
      gray        |-> [main |-> Lit("#808080"), shadow |-> Lit("#5A5A5A"), highlight |-> Lit("#A0A0A0")],
      golden      |-> [main |-> Lit("#FFD700"), shadow |-> Lit("#B8860B"), highlight |-> Lit("#FFEC8B")],
      silver      |-> [main |-> Lit("#C0C0C0"), shadow |-> Lit("#909090"), highlight |-> Lit("#E8E8E8")],
      copper      |-> [main |-> Lit("#B87333"), shadow |-> Lit("#8B5A2B"), highlight |-> Lit("#D4A574")],
      bronze      |-> [main |-> Lit("#CD7F32"), shadow |-> Lit("#8B5A2B"), highlight |-> Lit("#DAA06D")],
      blue        |-> [main |-> Lit("#4169E1"), shadow |-> Lit("#2E4A9E"), highlight |-> Lit("#6B8BF5")],
      purple      |-> [main |-> Lit("#9370DB"), shadow |-> Lit("#6A4FA0"), highlight |-> Lit("#B19CD9")],
      green       |-> [main |-> Lit("#32CD32"), shadow |-> Lit("#228B22"), highlight |-> Lit("#7CFC00")],
      pink        |-> [main |-> Lit("#FF69B4"), shadow |-> Lit("#DB4D91"), highlight |-> Lit("#FFB6C1")],
      rainbow     |-> [main |-> Ref("rainbow-body"), shadow |-> Lit("#9400D3"), highlight |-> Lit("#FFD700")],
      galaxy      |-> [main |-> Ref("galaxy-body"), shadow |-> Lit("#1A0033"), highlight |-> Lit("#E6E6FA")],
      holographic |-> [main |-> Ref("holo-body"), shadow |-> Lit("#4B0082"), highlight |-> Lit("#FFFFFF")],
      crystal     |-> [main |-> Lit("#E0FFFF"), shadow |-> Lit("#87CEEB"), highlight |-> Lit("#FFFFFF")] ]

BACKGROUNDS_0 ==
    [ white          |-> [type |-> "solid", color |-> "#F8F9FA"],
      blue_sky       |-> [type |-> "gradient", id |-> "sky-gradient"],
      green_grass    |-> [type |-> "gradient", id |-> "grass-gradient"],
      sunset         |-> [type |-> "gradient", id |-> "sunset-gradient"],
      forest         |-> [type |-> "scene", base |-> "#1A4D1A", elements |-> "trees"],
      beach          |-> [type |-> "scene", base |-> "#F0E68C", elements |-> "waves"],
      mountains      |-> [type |-> "scene", base |-> "#708090", elements |-> "peaks"],
      city           |-> [type |-> "scene", base |-> "#2C3E50", elements |-> "buildings"],
      space          |-> [type |-> "scene", base |-> "#0D1B2A", elements |-> "stars"],
      underwater     |-> [type |-> "scene", base |-> "#006994", elements |-> "bubbles"],
      volcano        |-> [type |-> "scene", base |-> "#1A0A00", elements |-> "lava"],
      aurora         |-> [type |-> "gradient", id |-> "aurora-gradient"],
      multiverse     |-> [type |-> "gradient", id |-> "multiverse-gradient"],
      black_hole     |-> [type |-> "scene", base |-> "#000000", elements |-> "vortex"],
      dimension_rift |-> [type |-> "gradient", id |-> "rift-gradient"],
      heaven         |-> [type |-> "gradient", id |-> "heaven-gradient"] ]

\* Python dict.get(key, default)
DictGet(d, key, default) == IF key \in DOMAIN d THEN d[key] ELSE default

(***************************************************************************)
(* Seed: int(dna.dna_hash[:8], 16) if dna.dna_hash else 12345              *)
(***************************************************************************)
Limb == 16 * 16 * 16 * 16

FallbackSeed == 12345

HexChars == <<"0", "1", "2", "3", "4", "5", "6", "7", "8", "9",
              "a", "b", "c", "d", "e", "f">>

HexUpper == <<"A", "B", "C", "D", "E", "F">>

\* value of one hexadecimal character (int(., 16) takes either case)
HexDigit(c) ==
    IF \E i \in 1..16 : HexChars[i] = c
    THEN (CHOOSE i \in 1..16 : HexChars[i] = c) - 1
    ELSE (CHOOSE i \in 1..6 : HexUpper[i] = c) + 9

\* value of a string of at most 7 hexadecimal characters
RECURSIVE HexVal(_)
HexVal(s) ==
    IF s = <<>> THEN 0
    ELSE HexVal(SubSeq(s, 1, Len(s) - 1)) * 16 + HexDigit(s[Len(s)])

\* Python s[:n]
Prefix(s, n) == SubSeq(s, 1, Min(n, Len(s)))

\* Python int(s, 16) for a string of 1..8 hexadecimal characters, in limbs
IntBase16(s) ==
    LET n == Len(s)
        k == Min(4, n)
    IN  [hi |-> HexVal(SubSeq(s, 1, n - k)), lo |-> HexVal(SubSeq(s, n - k + 1, n))]

\* mutant: the slice stops one character short
SeedOf_short(dna_hash) ==
    IF dna_hash # <<>> THEN IntBase16(Prefix(dna_hash, 7))
    ELSE [hi |-> 0, lo |-> FallbackSeed]

SeedOf(dna_hash) ==
    IF dna_hash # <<>> THEN IntBase16(Prefix(dna_hash, 8))
    ELSE [hi |-> 0, lo |-> FallbackSeed]

\* seed % m for m > 0
SeedMod(s, m) == (((s.hi % m) * (Limb % m)) + (s.lo % m)) % m

\* Python (seed * k) % m for k >= 0 and m # 0 (the sign of the result is m's)
MulMod(s, k, m) ==
    LET am == Abs(m)
        a  == (SeedMod(s, am) * (k % am)) % am
    IN  IF m > 0 THEN a ELSE -((am - a) % am)

\* Python (seed + k) % m for k >= 0 and m > 0
AddMod(s, k, m) == (SeedMod(s, m) + k) % m

(***************************************************************************)
(* _generate_defs                                                          *)
(***************************************************************************)
Stop(offset, color) == El("stop", <<offset>>, <<A("stop-color", color)>>)

_generate_defs ==
    << Node("defs", <<>>, <<>>, <<
        Node("filter", <<-20, -20, 140, 140>>, <<A("id", "shadow")>>,
             << El("feDropShadow", <<2, 4, 3>>, <<A("flood-opacity", "0.3")>>) >>),
        Node("filter", <<-50, -50, 200, 200>>, <<A("id", "glow")>>,
             << El("feGaussianBlur", <<8>>, <<A("result", "blur")>>),
                Node("feMerge", <<>>, <<>>,
                     << El("feMergeNode", <<>>, <<A("in", "blur")>>),
                        El("feMergeNode", <<>>, <<A("in", "SourceGraphic")>>) >>) >>),
        Node("linearGradient", <<0, 0, 100, 100>>, <<A("id", "rainbow-body")>>,
             << Stop(0, "#FF6B6B"), Stop(25, "#FFE66D"), Stop(50, "#4ECDC4"),
                Stop(75, "#45B7D1"), Stop(100, "#DDA0DD") >>),
        Node("radialGradient", <<30, 30>>, <<A("id", "galaxy-body")>>,
             << Stop(0, "#E6E6FA"), Stop(50, "#9370DB"), Stop(100, "#1A0033") >>),
        Node("linearGradient", <<0, 0, 100, 100>>, <<A("id", "holo-body")>>,
             << Stop(0, "#FF00FF"), Stop(50, "#00FFFF"), Stop(100, "#FFFF00") >>),
        Node("linearGradient", <<0, 0, 0, 100>>, <<A("id", "sky-gradient")>>,
             << Stop(0, "#87CEEB"), Stop(100, "#E0F4FF") >>),
        Node("linearGradient", <<0, 0, 0, 100>>, <<A("id", "grass-gradient")>>,
             << Stop(0, "#90EE90"), Stop(100, "#228B22") >>),
        Node("linearGradient", <<0, 0, 0, 100>>, <<A("id", "sunset-gradient")>>,
             << Stop(0, "#FF6B6B"), Stop(50, "#FFE66D"), Stop(100, "#4ECDC4") >>),
        Node("linearGradient", <<0, 0, 100, 100>>, <<A("id", "aurora-gradient")>>,
             << Stop(0, "#0D1B2A"), Stop(30, "#00FF7F"), Stop(70, "#FF00FF"),
                Stop(100, "#0D1B2A") >>),
        Node("radialGradient", <<50, 50>>, <<A("id", "multiverse-gradient")>>,
             << Stop(0, "#FFD700"), Stop(40, "#FF00FF"), Stop(70, "#00FFFF"),
                Stop(100, "#000") >>),
        Node("linearGradient", <<0, 0, 100, 100>>, <<A("id", "rift-gradient")>>,
             << Stop(0, "#000"), Stop(30, "#9400D3"), Stop(50, "#00FFFF"),
                Stop(70, "#9400D3"), Stop(100, "#000") >>),
        Node("linearGradient", <<0, 0, 0, 100>>, <<A("id", "heaven-gradient")>>,
             << Stop(0, "#FFF"),
                El("stop", <<50>>, <<A("stop-color", "#FFD700"), A("stop-opacity", "0.3")>>),
                Stop(100, "#F0F8FF") >>),
        Node("clipPath", <<>>, <<A("id", "head-clip")>>,
             << El("ellipse", <<200, 200, 110, 115>>, <<>>) >>)
    >>) >>

(***************************************************************************)
(* _scene_elements                                                         *)
(***************************************************************************)
\* the lit windows of building i (left edge x, height bh), rows wy, columns wx
Windows(i, x, bh, h, s) ==
    LET cell(wy, wx) ==
            IF AddMod(s, i + wy + wx, 3) # 0
            THEN << El("rect", <<x + wx, (h - bh) + wy, 6, 8>>,
                       <<A("fill", "#FFD700"), A("opacity", "0.6")>>) >>
            ELSE <<>>
        wys == Range(10, bh - 10, 18)
        wxs == Range(8, 42, 14)
    IN  Concat([r \in 1..Len(wys) |->
                 Concat([c \in 1..Len(wxs) |-> cell(wys[r], wxs[c])])])

_scene_elements(elem, w, h, s) ==
    CASE elem = "stars" ->
           [n \in 1..40 |->
              LET i == n - 1
                  x == MulMod(s, (i + 1) * 7, w)
                  y == MulMod(s, (i + 1) * 13, h)
                  r == 1 + (i % 2)
              IN  El("circle", <<x, y, r, 4 + (i % 5)>>, <<A("fill", "white")>>)]
      [] elem = "trees" ->
           Concat([n \in 1..5 |->
              LET i  == n - 1
                  x  == 40 + (i * 80)
                  th == 50 + MulMod(s, i, 30)
              IN  << El("polygon", <<x, h - 20, x - 20, h - 20, x, (h - 20) - th>>,
                        <<A("fill", "#0D3D0D"), A("opacity", "0.5")>>),
                     El("polygon", <<x, h - 20, x + 20, h - 20, x, (h - 20) - th>>,
                        <<A("fill", "#1A5C1A"), A("opacity", "0.5")>>) >>])
      [] elem = "waves" ->
           [n \in 1..3 |->
              LET i == n - 1
                  y == (h - 50) + (i * 15)
              IN  El("path", <<0, y, 100, y - 12, 200, y, 400, y, 25 - (i * 6)>>,
                     <<A("fill", "#4169E1")>>)]
      [] elem = "peaks" ->
           << El("polygon", <<50, h, 150, h - 140, 250, h>>, <<A("fill", "#4A5568")>>),
              El("polygon", <<180, h, 280, h - 180, 380, h>>, <<A("fill", "#2D3748")>>),
              El("polygon", <<145, h - 130, 150, h - 140, 155, h - 130>>, <<A("fill", "white")>>),
              El("polygon", <<275, h - 170, 280, h - 180, 285, h - 170>>, <<A("fill", "white")>>) >>
      [] elem = "buildings" ->
           Concat([n \in 1..7 |->
              LET i  == n - 1
                  x  == i * 60
                  bh == 70 + MulMod(s, i + 1, 90)
              IN  << El("rect", <<x, h - bh, 50, bh>>, <<A("fill", "#1A202C")>>) >>
                  \o Windows(i, x, bh, h, s)])
      [] elem = "bubbles" ->
           [n \in 1..15 |->
              LET i == n - 1
                  x == MulMod(s, (i + 1) * 17, w)
                  y == MulMod(s, (i + 1) * 23, h)
                  r == 4 + (i % 8)
              IN  El("circle", <<x, y, r>>,
                     <<A("fill", "none"), A("stroke", "white"), A("opacity", "0.25")>>)]
      [] elem = "lava" ->
           IF w - 60 = 0 THEN ZeroDivisionError    \* (seed*i*11) % (w-60)
           ELSE << El("rect", <<0, h - 60, w, 60>>,
                      <<A("fill", "#FF4500"), A("opacity", "0.6")>>) >>
                \o [n \in 1..6 |->
                      LET i == n - 1
                          x == 30 + MulMod(s, i * 11, w - 60)
                      IN  El("circle", <<x, h - 25, 6 + (i % 4)>>, <<A("fill", "#FF6600")>>)]
      [] elem = "vortex" ->
           LET cx == Half(w)
               cy == Half(h)
           IN  [n \in 1..6 |->
                  LET i == n - 1
                  IN  El("circle", <<cx, cy, 160 - (i * 25), 10 + (i * 5)>>,
                         <<A("fill", "none"), A("stroke", "#4B0082"), A("stroke-width", "2")>>)]
               \o << El("circle", <<cx, cy, 25>>, <<A("fill", "#000")>>) >>
      [] OTHER -> <<>>

(***************************************************************************)
(* _generate_background                                                    *)
(***************************************************************************)
\* mutant: the lookup falls back to another entry than "white"
_generate_background_sky(bg, w, h, s) ==
    LET cfg == DictGet(BACKGROUNDS, bg, BACKGROUNDS["blue_sky"])
    IN  CASE cfg.type = "solid" ->
               << El("rect", <<w, h>>, <<A("fill", cfg.color)>>) >>
          [] cfg.type = "gradient" ->
               << El("rect", <<w, h>>, <<Url("fill", cfg.id)>>) >>
          [] cfg.type = "scene" ->
               LET scene == _scene_elements(cfg.elements, w, h, s)
               IN  IF scene = ZeroDivisionError THEN ZeroDivisionError
                   ELSE << El("rect", <<w, h>>, <<A("fill", cfg.base)>>) >> \o scene
          [] OTHER -> <<>>

_generate_background(bg, w, h, s) ==
    LET cfg == DictGet(BACKGROUNDS, bg, BACKGROUNDS["white"])
    IN  CASE cfg.type = "solid" ->
               << El("rect", <<w, h>>, <<A("fill", cfg.color)>>) >>
          [] cfg.type = "gradient" ->
               << El("rect", <<w, h>>, <<Url("fill", cfg.id)>>) >>
          [] cfg.type = "scene" ->
               LET scene == _scene_elements(cfg.elements, w, h, s)
               IN  IF scene = ZeroDivisionError THEN ZeroDivisionError
                   ELSE << El("rect", <<w, h>>, <<A("fill", cfg.base)>>) >> \o scene
          [] OTHER -> <<>>

(***************************************************************************)
(* _pattern and _generate_body                                             *)
(***************************************************************************)
_pattern(p, cx, cy, s) ==
    CASE p = "spots" ->
           [n \in 1..10 |->
              LET i == n - 1
              IN  El("circle", <<(cx + MulMod(s, i * 7, 180)) - 90,
                                 (cy + MulMod(s, i * 11, 180)) - 90, 12>>,
                     <<A("fill", "#000"), A("opacity", "0.12")>>)]
      [] p = "stripes" ->
           [n \in 1..6 |->
              LET i == n - 1
              IN  El("rect", <<cx - 110, (cy - 100) + (i * 35), 220, 12, -15, cx, cy>>,
                     <<A("fill", "#000"), A("opacity", "0.08")>>)]
      [] p = "stars" ->
           [n \in 1..8 |->
              LET i == n - 1
              IN  El("text", <<(cx + MulMod(s, i * 13, 160)) - 80,
                               (cy + MulMod(s, i * 17, 160)) - 80, 18>>,
                     <<A("fill", "#FFD700"), A("opacity", "0.5"), A("text", "U+2605")>>)]
      [] p = "hearts" ->
           [n \in 1..7 |->
              LET i == n - 1
              IN  El("text", <<(cx + MulMod(s, i * 19, 140)) - 70,
                               (cy + MulMod(s, i * 23, 140)) - 70, 16>>,
                     <<A("fill", "#FF69B4"), A("opacity", "0.4"), A("text", "U+2665")>>)]
      [] p = "diamonds" ->
           [n \in 1..8 |->
              LET i == n - 1
              IN  El("text", <<(cx + MulMod(s, i * 11, 150)) - 75,
                               (cy + MulMod(s, i * 13, 150)) - 75, 18>>,
                     <<A("fill", "#00CED1"), A("opacity", "0.35"), A("text", "U+25C6")>>)]
      [] p = "swirls" ->
           [n \in 1..4 |->
              LET i == n - 1
              IN  El("circle", <<cx, cy, 100 - (i * 25)>>,
                     <<A("fill", "none"), A("stroke", "#000"), A("stroke-width", "2"),
                       A("opacity", "0.08"), A("stroke-dasharray", "15,10")>>)]
      [] p = "gradient" ->
           << El("ellipse", <<cx, cy, 110, 115>>,
                 <<Url("fill", "sky-gradient"), A("opacity", "0.25")>>) >>
      [] p = "nebula" ->
           << El("ellipse", <<cx - 25, cy - 15, 45, 35>>,
                 <<A("fill", "#FF00FF"), A("opacity", "0.12")>>),
              El("ellipse", <<cx + 30, cy + 25, 40, 30>>,
                 <<A("fill", "#00FFFF"), A("opacity", "0.12")>>) >>
      [] p = "lightning" ->
           << El("path", <<cx - 15, cy - 70, cx + 15, cy - 10, cx, cy - 10, cx + 30, cy + 50>>,
                 <<A("stroke", "#FFD700"), A("stroke-width", "3"), A("fill", "none"),
                   A("opacity", "0.5")>>) >>
      [] p = "flames" ->
           << El("ellipse", <<cx, cy + 70, 45, 25>>,
                 <<A("fill", "#FF4500"), A("opacity", "0.2")>>),
              El("ellipse", <<cx, cy + 60, 35, 20>>,
                 <<A("fill", "#FF6600"), A("opacity", "0.15")>>) >>
      [] p \in {"fractals", "aurora", "quantum", "cosmic_dust", "void"} ->
           << El("ellipse", <<cx, cy, 100, 105>>,
                 <<Url("fill", "aurora-gradient"), A("opacity", "0.2")>>) >>
      [] OTHER -> <<>>

\* mutant: the overlay is emitted without its clip group
body_pattern_unclipped(pattern, cx, cy, s) ==
    IF pattern \notin {"solid", "none"}
    THEN _pattern(pattern, cx, cy, s)
    ELSE <<>>

\* mutant: the clip group names an identifier the definitions do not hold
body_pattern_misnamed(pattern, cx, cy, s) ==
    IF pattern \notin {"solid", "none"}
    THEN << Node("g", <<>>, <<Url("clip-path", "headclip")>>,
                 _pattern(pattern, cx, cy, s)) >>
    ELSE <<>>

\* the "# Pattern" step of _generate_body: what it appends to parts
body_pattern(pattern, cx, cy, s) ==
    IF pattern \notin {"solid", "none"}
    THEN << Node("g", <<>>, <<Url("clip-path", "head-clip")>>,
                 _pattern(pattern, cx, cy, s)) >>
    ELSE <<>>

_generate_body(color, pattern, w, h, s) ==
    LET cx == Half(w)
        cy == Half(h)
        c  == DictGet(BODY_COLORS, color, BODY_COLORS["brown"])
        ear(dx) ==
            << El("ellipse", <<cx + dx, cy - 60, 45, 50>>,
                  <<Paint("fill", c.main), Url("filter", "shadow")>>),
               El("ellipse", <<cx + dx, cy - 60, 30, 35>>, <<A("fill", "#FFB6C1")>>),
               El("ellipse", <<cx + dx, cy - 55, 18, 22>>, <<A("fill", "#FF9999")>>) >>
        head ==
            << El("ellipse", <<cx, cy, 110, 115>>,
                  <<Paint("fill", c.main), Url("filter", "shadow")>>),
               El("ellipse", <<cx - 20, cy - 60, 50, 30>>,
                  <<Paint("fill", c.highlight), A("opacity", "0.3")>>) >>
        overlay == body_pattern(pattern, cx, cy, s)
        muzzle ==
            << El("ellipse", <<cx, cy + 35, 70, 60>>, <<A("fill", "#FFDAB9")>>),
               El("ellipse", <<cx, cy + 50, 55, 40>>,
                  <<A("fill", "#DEB887"), A("opacity", "0.3")>>) >>
    IN  ear(-85) \o ear(85) \o head \o overlay \o muzzle

(***************************************************************************)
(* _generate_face: _eyes, _nose, _mouth, _brows                            *)
(***************************************************************************)
_eyes(expr, lx, rx, ey) ==
    LET shadows ==
            << El("ellipse", <<lx, ey, 22, 24>>, <<A("fill", "#000"), A("opacity", "0.08")>>),
               El("ellipse", <<rx, ey, 22, 24>>, <<A("fill", "#000"), A("opacity", "0.08")>>) >>
        open(x) ==
            << El("ellipse", <<x, ey, 18, 20>>, <<A("fill", "white")>>),
               El("circle", <<x, ey, 12>>, <<A("fill", "#3D2314")>>),
               El("circle", <<x, ey, 6>>, <<A("fill", "#000")>>),
               El("circle", <<x + 4, ey - 4, 4>>, <<A("fill", "white")>>) >>
        squint(x) ==
            << El("ellipse", <<x, ey, 18, 8>>, <<A("fill", "white")>>),
               El("ellipse", <<x, ey + 2, 10, 5>>, <<A("fill", "#3D2314")>>) >>
        wide(x) ==
            << El("ellipse", <<x, ey, 20, 24>>, <<A("fill", "white")>>),
               El("circle", <<x, ey, 14>>, <<A("fill", "#3D2314")>>),
               El("circle", <<x, ey, 8>>, <<A("fill", "#000")>>),
               El("circle", <<x + 5, ey - 5, 5>>, <<A("fill", "white")>>) >>
        glow_color == IF expr = "legendary" THEN "#FF4500" ELSE "#E6E6FA"
        iris_color == IF expr = "legendary" THEN "#FFD700" ELSE "#9370DB"
        glowing(x) ==
            << El("ellipse", <<x, ey, 18, 20>>, <<A("fill", glow_color), Url("filter", "glow")>>),
               El("circle", <<x, ey, 10>>, <<A("fill", iris_color)>>),
               El("circle", <<x, ey, 4>>, <<A("fill", "#FFF")>>) >>
    IN  shadows \o
        CASE expr \in {"sleepy", "zen"} -> squint(lx) \o squint(rx)
          [] expr = "winking" ->
               open(lx) \o
               << El("path", <<rx - 15, ey, rx, ey + 8, rx + 15, ey>>,
                     <<A("stroke", "#3D2314"), A("stroke-width", "3"), A("fill", "none")>>) >>
          [] expr \in {"surprised", "excited"} -> wide(lx) \o wide(rx)
          [] expr \in {"enlightened", "cosmic", "divine", "legendary"} ->
               glowing(lx) \o glowing(rx)
          [] OTHER -> open(lx) \o open(rx)

_nose(cx, cy) ==
    LET ny == cy + 30
    IN  Node("g", <<>>, <<>>,
             << El("ellipse", <<cx, ny, 25, 18>>, <<A("fill", "#8B4513")>>),
                El("ellipse", <<cx, ny, 22, 15>>, <<A("fill", "#A0522D")>>),
                El("ellipse", <<cx - 8, ny, 5, 7>>, <<A("fill", "#5D2E0C")>>),
                El("ellipse", <<cx + 8, ny, 5, 7>>, <<A("fill", "#5D2E0C")>>) >>)

_mouth(expr, cx, cy) ==
    LET my == cy + 60
    IN  CASE expr \in {"happy", "excited"} ->
               << El("path", <<cx - 30, my, cx, my + 25, cx + 30, my>>,
                     <<A("stroke", "#5D2E0C"), A("stroke-width", "4"), A("fill", "none")>>) >>
          [] expr = "laughing" ->
               << El("ellipse", <<cx, my + 5, 28, 18>>, <<A("fill", "#8B0000")>>),
                  El("ellipse", <<cx, my + 12, 18, 7>>, <<A("fill", "#FF6B6B")>>) >>
          [] expr = "surprised" ->
               << El("ellipse", <<cx, my + 5, 16, 22>>, <<A("fill", "#8B0000")>>) >>
          [] expr \in {"mischievous", "cool"} ->
               << El("path", <<cx - 22, my + 5, cx, my, cx + 25, my - 8>>,
                     <<A("stroke", "#5D2E0C"), A("stroke-width", "3"), A("fill", "none")>>) >>
          [] expr \in {"wise", "zen", "enlightened", "cosmic", "divine"} ->
               << El("path", <<cx - 22, my, cx, my + 8, cx + 22, my>>,
                     <<A("stroke", "#5D2E0C"), A("stroke-width", "2"), A("fill", "none")>>) >>
          [] OTHER ->
               << El("line", <<cx - 18, my, cx + 18, my>>,
                     <<A("stroke", "#5D2E0C"), A("stroke-width", "2")>>) >>

_brows(expr, lx, rx, ey) ==
    LET by == ey - 30
    IN  CASE expr \in {"surprised", "excited"} ->
               << El("path", <<lx - 15, by + 5, lx, by - 5, lx + 15, by + 5>>,
                     <<A("stroke", "#5D2E0C"), A("stroke-width", "3"), A("fill", "none")>>),
                  El("path", <<rx - 15, by + 5, rx, by - 5, rx + 15, by + 5>>,
                     <<A("stroke", "#5D2E0C"), A("stroke-width", "3"), A("fill", "none")>>) >>
          [] expr \in {"mischievous", "cool"} ->
               << El("line", <<lx - 12, by, lx + 12, by + 6>>,
                     <<A("stroke", "#5D2E0C"), A("stroke-width", "3")>>),
                  El("line", <<rx - 12, by + 6, rx + 12, by>>,
                     <<A("stroke", "#5D2E0C"), A("stroke-width", "3")>>) >>
          [] expr \in {"wise", "zen"} ->
               << El("line", <<lx - 12, by + 3, lx + 12, by + 3>>,
                     <<A("stroke", "#5D2E0C"), A("stroke-width", "2")>>),
                  El("line", <<rx - 12, by + 3, rx + 12, by + 3>>,
                     <<A("stroke", "#5D2E0C"), A("stroke-width", "2")>>) >>
          [] OTHER -> <<>>

_generate_face(expr, w, h) ==
    LET cx == Half(w)
        cy == Half(h)
        ey == cy - 15
        sp == 38
        lx == cx - sp
        rx == cx + sp
    IN  _eyes(expr, lx, rx, ey) \o << _nose(cx, cy) >> \o _mouth(expr, cx, cy)
        \o _brows(expr, lx, rx, ey)

(***************************************************************************)
(* _generate_accessory                                                     *)
(***************************************************************************)
_generate_accessory(acc, w, h) ==
    LET cx == Half(w)
        cy == Half(h)
        accessories ==
          [ none |-> <<>>,
            simple_hat |->
              << El("rect", <<cx - 45, cy - 145, 90, 18, 3>>, <<A("fill", "#8B0000")>>),
                 El("rect", <<cx - 55, cy - 130, 110, 8>>, <<A("fill", "#8B0000")>>) >>,
            bandana |->
              << El("path", <<cx - 90, cy - 80, cx, cy - 110, cx + 90, cy - 80>>,
                    <<A("stroke", "#E74C3C"), A("stroke-width", "12"), A("fill", "none")>>),
                 El("polygon", <<cx - 95, cy - 75, cx - 110, cy - 40, cx - 85, cy - 50>>,
                    <<A("fill", "#E74C3C")>>) >>,
            bow |->
              << El("ellipse", <<cx - 70, cy - 70, 20, 15>>, <<A("fill", "#FF69B4")>>),
                 El("ellipse", <<cx - 70, cy - 70, 8, 8>>, <<A("fill", "#FF1493")>>),
                 El("polygon", <<cx - 70, cy - 85, cx - 55, cy - 70, cx - 70, cy - 55>>,
                    <<A("fill", "#FF69B4")>>) >>,
            sunglasses |->
              << El("rect", <<cx - 58, cy - 25, 38, 28, 4>>,
                    <<A("fill", "#000"), A("opacity", "0.85")>>),
                 El("rect", <<cx + 20, cy - 25, 38, 28, 4>>,
                    <<A("fill", "#000"), A("opacity", "0.85")>>),
                 El("line", <<cx - 20, cy - 11, cx + 20, cy - 11>>,
                    <<A("stroke", "#000"), A("stroke-width", "3")>>),
                 El("line", <<cx - 58, cy - 11, cx - 80, cy - 20>>,
                    <<A("stroke", "#000"), A("stroke-width", "2")>>),
                 El("line", <<cx + 58, cy - 11, cx + 80, cy - 20>>,
                    <<A("stroke", "#000"), A("stroke-width", "2")>>) >>,
            crown |->
              << El("polygon", <<cx - 35, cy - 130, cx - 20, cy - 155, cx, cy - 135,
                                 cx + 20, cy - 155, cx + 35, cy - 130>>,
                    <<A("fill", "#FFD700"), A("stroke", "#DAA520"), A("stroke-width", "2")>>),
                 El("rect", <<cx - 35, cy - 130, 70, 12>>,
                    <<A("fill", "#FFD700"), A("stroke", "#DAA520"), A("stroke-width", "2")>>) >>,
            headphones |->
              << El("path", <<cx - 75, cy - 30, cx - 75, cy - 100, cx, cy - 110,
                              cx + 75, cy - 100, cx + 75, cy - 30>>,
                    <<A("stroke", "#333"), A("stroke-width", "8"), A("fill", "none")>>),
                 El("rect", <<cx - 85, cy - 45, 25, 40, 5>>, <<A("fill", "#333")>>),
                 El("rect", <<cx + 60, cy - 45, 25, 40, 5>>, <<A("fill", "#333")>>) >>,
            monocle |->
              << El("circle", <<cx + 38, cy - 15, 22>>,
                    <<A("fill", "none"), A("stroke", "#DAA520"), A("stroke-width", "3")>>),
                 El("line", <<cx + 60, cy - 15, cx + 90, cy + 40>>,
                    <<A("stroke", "#DAA520"), A("stroke-width", "2")>>) >>,
            halo |->
              << El("ellipse", <<cx, cy - 150, 55, 12>>,
                    <<A("fill", "none"), A("stroke", "#FFD700"), A("stroke-width", "6"),
                      A("opacity", "0.85"), Url("filter", "glow")>>) >>,
            horns |->
              << El("path", <<cx - 60, cy - 90, cx - 80, cy - 150, cx - 50, cy - 160>>,
                    <<A("stroke", "#8B0000"), A("stroke-width", "12"), A("fill", "none"),
                      A("stroke-linecap", "round")>>),
                 El("path", <<cx + 60, cy - 90, cx + 80, cy - 150, cx + 50, cy - 160>>,
                    <<A("stroke", "#8B0000"), A("stroke-width", "12"), A("fill", "none"),
                      A("stroke-linecap", "round")>>) >>,
            wizard_hat |->
              << El("polygon", <<cx, cy - 190, cx - 55, cy - 115, cx + 55, cy - 115>>,
                    <<A("fill", "#4B0082")>>),
                 El("ellipse", <<cx, cy - 115, 65, 12>>, <<A("fill", "#4B0082")>>),
                 El("text", <<cx, cy - 145, 20>>,
                    <<A("fill", "#FFD700"), A("text-anchor", "middle"), A("text", "U+2605")>>) >>,
            golden_crown |->
              << El("polygon", <<cx - 45, cy - 130, cx - 30, cy - 165, cx - 10, cy - 140,
                                 cx + 10, cy - 165, cx + 30, cy - 140, cx + 45, cy - 165,
                                 cx + 45, cy - 115, cx - 45, cy - 115>>,
                    <<A("fill", "#FFD700"), A("stroke", "#B8860B"), A("stroke-width", "3")>>),
                 El("circle", <<cx, cy - 155, 8>>, <<A("fill", "#E74C3C")>>),
                 El("circle", <<cx - 25, cy - 145, 5>>, <<A("fill", "#3498DB")>>),
                 El("circle", <<cx + 25, cy - 145, 5>>, <<A("fill", "#2ECC71")>>) >>,
            diamond_chain |->
              << El("path", <<cx - 80, cy + 80, cx, cy + 100, cx + 80, cy + 80>>,
                    <<A("stroke", "#C0C0C0"), A("stroke-width", "4"), A("fill", "none")>>),
                 El("polygon", <<cx, cy + 85, cx + 12, cy + 100, cx, cy + 115, cx - 12, cy + 100>>,
                    <<A("fill", "#00CED1"), A("stroke", "#87CEEB"), A("stroke-width", "2")>>) >>,
            jetpack |->
              << El("rect", <<cx - 50, cy + 60, 20, 50, 5>>, <<A("fill", "#555")>>),
                 El("rect", <<cx + 30, cy + 60, 20, 50, 5>>, <<A("fill", "#555")>>),
                 El("ellipse", <<cx - 40, cy + 120, 8, 15>>,
                    <<A("fill", "#FF4500"), A("opacity", "0.8")>>),
                 El("ellipse", <<cx + 40, cy + 120, 8, 15>>,
                    <<A("fill", "#FF4500"), A("opacity", "0.8")>>) >>,
            wings |->
              << El("path", <<cx - 100, cy, cx - 150, cy - 80, cx - 180, cy + 20,
                              cx - 140, cy + 10, cx - 100, cy + 30>>,
                    <<A("fill", "#E6E6FA"), A("opacity", "0.8")>>),
                 El("path", <<cx + 100, cy, cx + 150, cy - 80, cx + 180, cy + 20,
                              cx + 140, cy + 10, cx + 100, cy + 30>>,
                    <<A("fill", "#E6E6FA"), A("opacity", "0.8")>>) >>,
            laser_eyes |->
              << El("line", <<cx - 38, cy - 15, cx - 150, cy + 50>>,
                    <<A("stroke", "#FF0000"), A("stroke-width", "4"), A("opacity", "0.7")>>),
                 El("line", <<cx + 38, cy - 15, cx + 150, cy + 50>>,
                    <<A("stroke", "#FF0000"), A("stroke-width", "4"), A("opacity", "0.7")>>) >> ]
    IN  DictGet(accessories, acc, <<>>)

(***************************************************************************)
(* _generate_special_back, _generate_special_front                         *)
(***************************************************************************)
\* mutant: 'mythical' is missing from the halo list
_generate_special_back_no_mythical(sp, w, h) ==
    LET cx == Half(w)
        cy == Half(h)
    IN  CASE sp = "aura" ->
               << El("circle", <<cx, cy, 160>>,
                     <<A("fill", "none"), A("stroke", "#9400D3"), A("stroke-width", "4"),
                       A("opacity", "0.3")>>),
                  El("circle", <<cx, cy, 175>>,
                     <<A("fill", "none"), A("stroke", "#4B0082"), A("stroke-width", "2"),
                       A("opacity", "0.2")>>) >>
          [] sp = "energy" ->
               << El("circle", <<cx, cy, 165>>,
                     <<A("fill", "none"), A("stroke", "#00FFFF"), A("stroke-width", "3"),
                       A("opacity", "0.25"), A("stroke-dasharray", "20,10")>>) >>
          [] sp \in {"transcendent", "godlike"} ->
               << El("circle", <<cx, cy, 180>>,
                     <<Url("fill", "multiverse-gradient"), A("opacity", "0.15")>>) >>
          [] OTHER -> <<>>

_generate_special_back(sp, w, h) ==
    LET cx == Half(w)
        cy == Half(h)
    IN  CASE sp = "aura" ->
               << El("circle", <<cx, cy, 160>>,
                     <<A("fill", "none"), A("stroke", "#9400D3"), A("stroke-width", "4"),
                       A("opacity", "0.3")>>),
                  El("circle", <<cx, cy, 175>>,
                     <<A("fill", "none"), A("stroke", "#4B0082"), A("stroke-width", "2"),
                       A("opacity", "0.2")>>) >>
          [] sp = "energy" ->
               << El("circle", <<cx, cy, 165>>,
                     <<A("fill", "none"), A("stroke", "#00FFFF"), A("stroke-width", "3"),
                       A("opacity", "0.25"), A("stroke-dasharray", "20,10")>>) >>
          [] sp \in {"transcendent", "godlike", "mythical"} ->
               << El("circle", <<cx, cy, 180>>,
                     <<Url("fill", "multiverse-gradient"), A("opacity", "0.15")>>) >>
          [] OTHER -> <<>>

_generate_special_front(sp, w, h, s) ==
    LET cx == Half(w)
        cy == Half(h)
    IN  CASE sp = "sparkles" ->
               LET pos == << <<cx - 90, cy - 90>>, <<cx + 90, cy - 90>>, <<cx - 90, cy + 90>>,
                             <<cx + 90, cy + 90>>, <<cx, cy - 130>> >>
               IN  [n \in 1..5 |->
                      El("text", <<pos[n][1], pos[n][2], 24>>,
                         <<A("fill", "#FFD700"), A("text", "U+2726")>>)]
          [] sp = "glow" ->
               << El("circle", <<cx, cy, 135>>,
                     <<A("fill", "none"), A("stroke", "#FFD700"), A("stroke-width", "6"),
                       A("opacity", "0.25")>>) >>
          [] sp = "shadow" ->
               << El("ellipse", <<cx, cy + 140, 100, 20>>,
                     <<A("fill", "#000"), A("opacity", "0.2")>>) >>
          [] sp = "particles" ->
               [n \in 1..12 |->
                  LET i == n - 1
                  IN  El("circle", <<(cx + MulMod(s, i * 13, 200)) - 100,
                                     (cy + MulMod(s, i * 17, 200)) - 100, 3>>,
                         <<A("fill", "#FFD700"), A("opacity", "0.6")>>)]
          [] sp = "transcendent" ->
               << El("circle", <<cx, cy, 145>>,
                     <<A("fill", "none"), A("stroke", "#FFD700"), A("stroke-width", "4"),
                       A("opacity", "0.4"), Url("filter", "glow")>>) >>
          [] sp = "godlike" ->
               << El("circle", <<cx, cy, 150>>,
                     <<A("fill", "none"), A("stroke", "#FFF"), A("stroke-width", "3"),
                       A("opacity", "0.5"), Url("filter", "glow")>>),
                  El("text", <<cx, cy - 170, 36>>,
                     <<A("fill", "#FFD700"), A("text-anchor", "middle"),
                       Url("filter", "glow"), A("text", "U+2654")>>) >>
          [] sp = "mythical" ->
               << El("circle", <<cx, cy, 155>>,
                     <<A("fill", "none"), A("stroke", "#FF00FF"), A("stroke-width", "3"),
                       A("opacity", "0.4"), Url("filter", "glow")>>),
                  El("circle", <<cx, cy, 165>>,
                     <<A("fill", "none"), A("stroke", "#00FFFF"), A("stroke-width", "2"),
                       A("opacity", "0.3")>>) >>
          [] OTHER -> <<>>

(***************************************************************************)
(* _generate_badge.  d.rarity is the rarity score (a float in the source)  *)
(* in units of 1/ScoreDen, so score >= 80 reads d.rarity >= 80 * ScoreDen. *)
(***************************************************************************)
\* mutant: the thresholds are exclusive
badge_tier_strict(score) ==
    CASE score > 80 * ScoreDen -> [color |-> "#FFD700", label |-> "LEGENDARY"]
      [] score > 60 * ScoreDen -> [color |-> "#9370DB", label |-> "RARE"]
      [] score > 40 * ScoreDen -> [color |-> "#4ECDC4", label |-> "UNCOMMON"]
      [] OTHER                 -> [color |-> "#A0A0A0", label |-> "COMMON"]

\* the if/elif chain of _generate_badge: (color, label) of a score
badge_tier(score) ==
    CASE score >= 80 * ScoreDen -> [color |-> "#FFD700", label |-> "LEGENDARY"]
      [] score >= 60 * ScoreDen -> [color |-> "#9370DB", label |-> "RARE"]
      [] score >= 40 * ScoreDen -> [color |-> "#4ECDC4", label |-> "UNCOMMON"]
      [] OTHER                  -> [color |-> "#A0A0A0", label |-> "COMMON"]

_generate_badge(d, w, h) ==
    LET score == d.rarity
        gen   == d.generation
        tier  == badge_tier(score)
    IN  << Node("g", <<w - 75, 15>>, <<>>,
                << El("rect", <<65, 22, 4>>, <<A("fill", tier.color), A("opacity", "0.9")>>),
                   El("text", <<32, 15, 8>>,
                      <<A("fill", "#FFF"), A("text-anchor", "middle"),
                        A("font-family", "sans-serif"), A("font-weight", "bold"),
                        A("text", tier.label)>>) >>),
           Node("g", <<10, 15>>, <<>>,
                << El("rect", <<45, 22, 4>>, <<A("fill", "#333"), A("opacity", "0.8")>>),
                   El("text", <<22, 15, 9>>,
                      <<A("fill", "#FFF"), A("text-anchor", "middle"),
                        A("font-family", "sans-serif"),
                        A("text", "Gen " \o ToString(gen))>>) >>) >>

(***************************************************************************)
(* generate_svg, generate_thumbnail                                        *)
(***************************************************************************)
\* an exception e leaving generate_svg: no document is returned
Raise(e) == << e >>

\* mutant: width and height are exchanged in the opening tag
svg_open_swapped(w, h) ==
    << El("svg", <<h, w, 0, 0, h, w>>, <<A("xmlns", "http://www.w3.org/2000/svg")>>) >>

\* the opening tag, first entry of svg_parts
svg_open(w, h) ==
    << El("svg", <<w, h, 0, 0, w, h>>, <<A("xmlns", "http://www.w3.org/2000/svg")>>) >>

\* mutant: the accessory is drawn over the front special effect
svg_parts_reordered(open, defs, background, special_back, body, face, accessory, special_front, badge) ==
    << open, defs, background, special_back, body, face, special_front, accessory,
       badge, << El("/svg", <<>>, <<>>) >> >>

\* the list svg_parts of generate_svg, given the fragments in call order
svg_parts(open, defs, background, special_back, body, face, accessory, special_front, badge) ==
    << open, defs, background, special_back, body, face, accessory, special_front,
       badge, << El("/svg", <<>>, <<>>) >> >>

\* mutant: the body renderer is handed the background value as its pattern
generate_svg_crossed(d, w, h) ==
    LET traits == [ body_color |-> d.traits.BODY_COLOR,
                    expression |-> d.traits.FACE_EXPRESSION,
                    accessory  |-> d.traits.ACCESSORY,
                    pattern    |-> d.traits.PATTERN,
                    background |-> d.traits.BACKGROUND,
                    special    |-> d.traits.SPECIAL ]
        s == SeedOf(d.dna_hash)
        background == _generate_background(traits.background, w, h, s)
    IN  IF background = ZeroDivisionError THEN Raise(ZeroDivisionError)
        ELSE svg_parts(svg_open(w, h),
                       _generate_defs,
                       background,
                       _generate_special_back(traits.special, w, h),
                       _generate_body(traits.body_color, traits.background, w, h, s),
                       _generate_face(traits.expression, w, h),
                       _generate_accessory(traits.accessory, w, h),
                       _generate_special_front(traits.special, w, h, s),
                       _generate_badge(d, w, h))

generate_svg(d, w, h) ==
    LET traits == [ body_color |-> d.traits.BODY_COLOR,
                    expression |-> d.traits.FACE_EXPRESSION,
                    accessory  |-> d.traits.ACCESSORY,
                    pattern    |-> d.traits.PATTERN,
                    background |-> d.traits.BACKGROUND,
                    special    |-> d.traits.SPECIAL ]
        s == SeedOf(d.dna_hash)
        background == _generate_background(traits.background, w, h, s)
    IN  IF background = ZeroDivisionError THEN Raise(ZeroDivisionError)
        ELSE svg_parts(svg_open(w, h),
                       _generate_defs,
                       background,
                       _generate_special_back(traits.special, w, h),
                       _generate_body(traits.body_color, traits.pattern, w, h, s),
                       _generate_face(traits.expression, w, h),
                       _generate_accessory(traits.accessory, w, h),
                       _generate_special_front(traits.special, w, h, s),
                       _generate_badge(d, w, h))

\* mutant: only the width is passed on, the height keeps its default
generate_thumbnail_width_only(d, size) == generate_svg(d, size, 400)

generate_thumbnail(d, size) == generate_svg(d, size, size)

(***************************************************************************)
(* Inputs.  A MonkeyDNA is owned by the caller: one trait value per        *)
(* category, a fingerprint dna_hash (a sequence of characters), a          *)
(* generation and a rarity score.  Each category's values are the ones the *)
(* renderers name, plus one identifier no table holds.                     *)
(***************************************************************************)
BodyColorValues == DOMAIN BODY_COLORS_0 \cup {"plaid"}

ExpressionValues ==
    {"happy", "laughing", "surprised", "mischievous", "cool", "wise", "zen",
     "enlightened", "cosmic", "divine", "sleepy", "winking", "excited", "legendary",
     "neutral", "grumpy"}

AccessoryValues ==
    {"none", "simple_hat", "bandana", "bow", "sunglasses", "crown", "headphones",
     "monocle", "halo", "horns", "wizard_hat", "golden_crown", "diamond_chain",
     "jetpack", "wings", "laser_eyes", "scarf"}

PatternValues ==
    {"solid", "none", "spots", "stripes", "stars", "hearts", "diamonds", "swirls",
     "gradient", "nebula", "lightning", "flames", "fractals", "aurora", "quantum",
     "cosmic_dust", "void", "plaid"}

BackgroundValues == DOMAIN BACKGROUNDS_0 \cup {"jungle"}

SpecialValues ==
    {"none", "aura", "energy", "sparkles", "glow", "shadow", "particles",
     "transcendent", "godlike", "mythical", "rainbow_trail"}

Vocabulary ==
    [ BODY_COLOR |-> BodyColorValues, FACE_EXPRESSION |-> ExpressionValues,
      ACCESSORY |-> AccessoryValues, PATTERN |-> PatternValues,
      BACKGROUND |-> BackgroundValues, SPECIAL |-> SpecialValues ]

BaseTraits ==
    [ BODY_COLOR |-> "blue", FACE_EXPRESSION |-> "happy", ACCESSORY |-> "sunglasses",
      PATTERN |-> "stripes", BACKGROUND |-> "space", SPECIAL |-> "glow" ]

\* the base traits with one category set to any value of its vocabulary
SweepTraits ==
    UNION { { [BaseTraits EXCEPT ![c] = v] : v \in Vocabulary[c] } : c \in DOMAIN Vocabulary }

\* combinations of a known and an unknown value in every category
MixTraits ==
    [ BODY_COLOR : {"rainbow", "plaid"}, FACE_EXPRESSION : {"zen", "grumpy"},
      ACCESSORY : {"halo", "scarf"}, PATTERN : {"spots", "solid"},
      BACKGROUND : {"volcano", "jungle"}, SPECIAL : {"particles", "rainbow_trail"} ]

BaseHash == <<"1", "a", "2", "b", "3", "c", "4", "d", "5", "e", "6", "f">>

HashSamples == { <<>>, BaseHash }

\* fingerprints: every prefix, of at most MaxHashLen characters, of these strings
LongHashes ==
    { BaseHash,
      <<"f", "f", "f", "f", "f", "f", "f", "f", "f", "f", "f", "f">>,
      <<"0", "0", "0", "0", "0", "0", "0", "0", "0", "0", "0", "0">>,
      <<"F", "E", "D", "C", "B", "A", "9", "8", "7", "6", "5", "4">>,
      <<"8", "0", "0", "0", "0", "0", "0", "0", "1", "2", "3", "4">>,
      <<"7", "f", "f", "f", "f", "f", "f", "f", "a", "b", "c", "d">>,
      <<"0", "0", "0", "0", "3", "0", "3", "9", "0", "0", "0", "0">> }

AllHashes == { SubSeq(x, 1, Min(n, Len(x))) : x \in LongHashes, n \in 0..MaxHashLen }

BaseRarity == 72 * ScoreDen

DNAS ==
    { [traits |-> t, dna_hash |-> x, generation |-> 1, rarity |-> BaseRarity] :
        t \in SweepTraits \cup MixTraits, x \in HashSamples }
    \cup
    { [traits |-> BaseTraits, dna_hash |-> x, generation |-> 1, rarity |-> BaseRarity] :
        x \in AllHashes }
    \cup
    { [traits |-> BaseTraits, dna_hash |-> BaseHash, generation |-> 1, rarity |-> r] :
        r \in 0..(100 * ScoreDen) }
    \cup
    { [traits |-> BaseTraits, dna_hash |-> BaseHash, generation |-> g, rarity |-> r] :
        g \in 0..MaxGen, r \in {0, 40 * ScoreDen, 100 * ScoreDen} }

Widths == {59, 60, 400}

Heights == {200, 400}

ThumbSizes == {60, 100}

(***************************************************************************)
(* The state machine: a caller holding one DNA calls the two entry points. *)
(* A session makes at most MaxCalls calls; a later call repeats the first  *)
(* one's arguments.                                                        *)
(***************************************************************************)
Init ==
    /\ BODY_COLORS = BODY_COLORS_0
    /\ BACKGROUNDS = BACKGROUNDS_0
    /\ dna \in DNAS
    /\ op = "none"
    /\ width = 0
    /\ height = 0
    /\ seed = [hi |-> 0, lo |-> 0]
    /\ result = <<>>
    /\ calls = 0

\* mutant: the call shades the shared catalog entry in place
GenerateSvg_in_place(w, h) ==
    /\ calls < MaxCalls
    /\ calls = 0 \/ (op = "generate_svg" /\ width = w /\ height = h)
    /\ op' = "generate_svg"
    /\ width' = w
    /\ height' = h
    /\ seed' = SeedOf(dna.dna_hash)
    /\ result' = generate_svg(dna, w, h)
    /\ calls' = calls + 1
    /\ LET key == IF dna.traits.BODY_COLOR \in DOMAIN BODY_COLORS
                  THEN dna.traits.BODY_COLOR ELSE "brown"
       IN  BODY_COLORS' = [BODY_COLORS EXCEPT ![key].main = BODY_COLORS[key].shadow]
    /\ UNCHANGED <<BACKGROUNDS, dna>>

GenerateSvg(w, h) ==
    /\ calls < MaxCalls
    /\ calls = 0 \/ (op = "generate_svg" /\ width = w /\ height = h)
    /\ op' = "generate_svg"
    /\ width' = w
    /\ height' = h
    /\ seed' = SeedOf(dna.dna_hash)
    /\ result' = generate_svg(dna, w, h)
    /\ calls' = calls + 1
    /\ UNCHANGED <<BODY_COLORS, BACKGROUNDS, dna>>

GenerateThumbnail(size) ==
    /\ calls < MaxCalls
    /\ calls = 0 \/ (op = "generate_thumbnail" /\ width = size /\ height = size)
    /\ op' = "generate_thumbnail"
    /\ width' = size
    /\ height' = size
    /\ seed' = SeedOf(dna.dna_hash)
    /\ result' = generate_thumbnail(dna, size)
    /\ calls' = calls + 1
    /\ UNCHANGED <<BODY_COLORS, BACKGROUNDS, dna>>

Next ==
    \/ \E w \in Widths, h \in Heights : GenerateSvg(w, h)
    \/ \E size \in ThumbSizes : GenerateThumbnail(size)

Spec == Init /\ [][Next]_vars

(***************************************************************************)
(* Vocabulary of the claims                                                *)
(***************************************************************************)
\* a call has been made and it returned a document
Returned == calls > 0 /\ result # Raise(ZeroDivisionError)

\* canvas centre of the last call
CX == Half(width)

CY == Half(height)

\* the identifiers each renderer names
KnownAccessories ==
    {"none", "simple_hat", "bandana", "bow", "sunglasses", "crown", "headphones",
     "monocle", "halo", "horns", "wizard_hat", "golden_crown", "diamond_chain",
     "jetpack", "wings", "laser_eyes"}

KnownSpecials ==
    {"aura", "energy", "sparkles", "glow", "shadow", "particles",
     "transcendent", "godlike", "mythical"}

\* hexadecimal digit j (0 = least significant) of a seed
Nibble(s, j) == IF j < 4 THEN (s.lo \div (16 ^ j)) % 16 ELSE (s.hi \div (16 ^ (j - 4))) % 16

KnownExpressions ==
    {"happy", "laughing", "surprised", "mischievous", "cool", "wise", "zen",
     "enlightened", "cosmic", "divine", "sleepy", "winking", "excited", "legendary"}

(***************************************************************************)
(* C1. Determinism: a call that repeats the previous call (same entry      *)
(* point, same DNA, same width and height) returns the same document, part *)
(* for part, from the same seed; and no call changes the class-level       *)
(* catalogs a later call reads.                                            *)
(***************************************************************************)
C1_Determinism ==
    [][ /\ (calls > 0 /\ op' = op /\ dna' = dna /\ width' = width /\ height' = height)
            => (result' = result /\ seed' = seed)
        /\ BODY_COLORS' = BODY_COLORS
        /\ BACKGROUNDS' = BACKGROUNDS ]_vars

\* a second identical call has returned a document
C1_Witness == calls = 2 /\ Returned /\ op = "generate_svg"

(***************************************************************************)
(* C2. Layer order: a returned document lists, between the opening and the *)
(* closing tag, the fragments definitions, background, special-back, body, *)
(* face, accessory, special-front, badge, in that order.                   *)
(***************************************************************************)
C2_LayerOrder ==
    Returned =>
        /\ Len(result) = 10
        /\ result[1][1].tag = "svg"
        /\ result[2] = _generate_defs
        /\ result[3] = _generate_background(dna.traits.BACKGROUND, width, height, seed)
        /\ result[4] = _generate_special_back(dna.traits.SPECIAL, width, height)
        /\ result[5] = _generate_body(dna.traits.BODY_COLOR, dna.traits.PATTERN, width, height, seed)
        /\ result[6] = _generate_face(dna.traits.FACE_EXPRESSION, width, height)
        /\ result[7] = _generate_accessory(dna.traits.ACCESSORY, width, height)
        /\ result[8] = _generate_special_front(dna.traits.SPECIAL, width, height, seed)
        /\ result[9] = _generate_badge(dna, width, height)
        /\ result[10][1].tag = "/svg"

\* a document whose special effect fills both slots and that has an accessory
C2_Witness ==
    /\ Returned
    /\ dna.traits.SPECIAL = "godlike"
    /\ result[4] # <<>> /\ result[7] # <<>> /\ result[8] # <<>>
    /\ result[7] # result[8]

(***************************************************************************)
(* C3. Canvas sizing: the opening tag of a returned document declares the  *)
(* requested width and height and the viewBox 0 0 width height.            *)
(***************************************************************************)
C3_CanvasSizing ==
    Returned =>
        /\ result[1][1].geom[1] = width
        /\ result[1][1].geom[2] = height
        /\ SubSeq(result[1][1].geom, 3, 6) = <<0, 0, width, height>>

\* a document of a canvas that is not square
C3_Witness == Returned /\ op = "generate_svg" /\ width # height

(***************************************************************************)
(* C4. Thumbnail equivalence: generate_thumbnail(d, s) returns what        *)
(* generate_svg(d, s, s) returns (or raises what it raises).               *)
(***************************************************************************)
C4_ThumbnailEquivalence ==
    (calls > 0 /\ op = "generate_thumbnail") =>
        /\ width = height
        /\ result = generate_svg(dna, width, width)

\* a thumbnail of another size than generate_svg's default canvas was returned
C4_Witness == Returned /\ op = "generate_thumbnail" /\ width = 100

(***************************************************************************)
(* C5. Badge thresholds: the badge of a returned document is labelled      *)
(* LEGENDARY (#FFD700) for a score >= 80, RARE (#9370DB) for 60 <= score < *)
(* 80, UNCOMMON (#4ECDC4) for 40 <= score < 60 and COMMON (#A0A0A0) below  *)
(* 40, and its second tag reads "Gen <generation>".                        *)
(***************************************************************************)
C5_BadgeThresholds ==
    Returned =>
        LET badge == result[9]
            color == badge[1].kids[1].paint[1].v
            label == badge[1].kids[2].paint[5].v
            tag   == badge[2].kids[2].paint[4].v
            r     == dna.rarity
        IN  /\ r >= 80 * ScoreDen => (label = "LEGENDARY" /\ color = "#FFD700")
            /\ (60 * ScoreDen <= r /\ r < 80 * ScoreDen) => (label = "RARE" /\ color = "#9370DB")
            /\ (40 * ScoreDen <= r /\ r < 60 * ScoreDen) => (label = "UNCOMMON" /\ color = "#4ECDC4")
            /\ r < 40 * ScoreDen => (label = "COMMON" /\ color = "#A0A0A0")
            /\ tag = "Gen " \o ToString(dna.generation)

\* a badge was rendered for a score on a threshold
C5_Witness ==
    Returned /\ dna.rarity \in {80 * ScoreDen, 60 * ScoreDen, 40 * ScoreDen}

(***************************************************************************)
(* C6. Seed derivation: for a non-empty hexadecimal fingerprint the seed   *)
(* is the integer its first 8 characters spell (digit for digit, so it is  *)
(* in 0..16^8-1); for an empty fingerprint it is 12345; and every seeded   *)
(* layer of the document was rendered from that one seed.                  *)
(***************************************************************************)
C6_SeedDerivation ==
    calls > 0 =>
        LET x == dna.dna_hash
            n == Min(8, Len(x))
        IN  /\ x = <<>> => seed = [hi |-> 0, lo |-> 12345]
            /\ x # <<>> =>
                 /\ seed.hi \in 0..((16 ^ 4) - 1)
                 /\ seed.lo \in 0..((16 ^ 4) - 1)
                 /\ \A k \in 1..n : Nibble(seed, n - k) = HexDigit(x[k])
                 /\ \A j \in n..7 : Nibble(seed, j) = 0
            /\ Returned =>
                 /\ result[3] = _generate_background(dna.traits.BACKGROUND, width, height, seed)
                 /\ result[5] = _generate_body(dna.traits.BODY_COLOR, dna.traits.PATTERN,
                                               width, height, seed)
                 /\ result[8] = _generate_special_front(dna.traits.SPECIAL, width, height, seed)

\* a seed of 2^31 or more, taken from a fingerprint longer than the slice
C6_Witness == calls > 0 /\ Len(dna.dna_hash) > 8 /\ seed.hi >= 32768 /\ seed.lo > 0

(***************************************************************************)
(* C7. Fallback safety: a trait value no table holds never raises and      *)
(* renders the category's default: body colour as brown, background as the *)
(* solid white rectangle, accessory and both special slots empty, and the  *)
(* face with open eyes, the neutral mouth line and no brows.               *)
(***************************************************************************)
C7_FallbackSafety ==
    LET t  == dna.traits
        lx == CX - 38
        rx == CX + 38
        ey == CY - 15
        my == CY + 60
        face == result[6]
        openEye(k, x) ==
            /\ face[k].tag = "ellipse"    /\ face[k].geom = <<x, ey, 18, 20>>
            /\ face[k + 1].tag = "circle" /\ face[k + 1].geom = <<x, ey, 12>>
            /\ face[k + 2].tag = "circle" /\ face[k + 2].geom = <<x, ey, 6>>
            /\ face[k + 3].tag = "circle" /\ face[k + 3].geom = <<x + 4, ey - 4, 4>>
    IN  /\ (calls > 0 /\ t.BACKGROUND \notin DOMAIN BACKGROUNDS_0) => Returned
        /\ Returned =>
            /\ t.BODY_COLOR \notin DOMAIN BODY_COLORS_0 =>
                 result[5] = _generate_body("brown", t.PATTERN, width, height, seed)
            /\ t.BACKGROUND \notin DOMAIN BACKGROUNDS_0 =>
                 /\ result[3] = << El("rect", <<width, height>>, <<A("fill", "#F8F9FA")>>) >>
                 /\ result[3] = _generate_background("white", width, height, seed)
            /\ t.ACCESSORY \notin KnownAccessories => result[7] = <<>>
            /\ t.SPECIAL \notin KnownSpecials => (result[4] = <<>> /\ result[8] = <<>>)
            /\ t.FACE_EXPRESSION \notin KnownExpressions =>
                 /\ Len(face) = 12
                 /\ openEye(3, lx)
                 /\ openEye(7, rx)
                 /\ face[11].tag = "g"
                 /\ face[12].tag = "line" /\ face[12].geom = <<CX - 18, my, CX + 18, my>>

\* a document rendered from unknown values in every table-driven category
C7_Witness ==
    /\ Returned
    /\ dna.traits.BODY_COLOR = "plaid"
    /\ dna.traits.BACKGROUND = "jungle"
    /\ dna.traits.ACCESSORY = "scarf"
    /\ dna.traits.SPECIAL = "rainbow_trail"
    /\ dna.traits.FACE_EXPRESSION = "grumpy"

(***************************************************************************)
(* C8. Pattern clipping: with a PATTERN other than solid/none the body     *)
(* fragment holds one group referencing the head clip region, after the    *)
(* two head ellipses and before the muzzle, the overlay is that group's    *)
(* content, and the rest is the plain skeleton; with solid/none the body   *)
(* is the ten skeleton ellipses, with no group and no clip reference.      *)
(***************************************************************************)
C8_PatternClipping ==
    Returned =>
        LET body == result[5]
            p    == dna.traits.PATTERN
            skeleton(e) ==
                /\ e.tag = "ellipse"
                /\ e.kids = <<>>
                /\ \A a \in 1..Len(e.paint) : e.paint[a].k # "clip-path"
            k == IF p \in {"solid", "none"} THEN 0 ELSE 1
        IN  /\ Len(body) = 10 + k
            /\ body[7].geom = <<CX, CY, 110, 115>>
            /\ body[8].geom = <<CX - 20, CY - 60, 50, 30>>
            /\ body[9 + k].geom = <<CX, CY + 35, 70, 60>>
            /\ body[10 + k].geom = <<CX, CY + 50, 55, 40>>
            /\ \A i \in (1..8) \cup ((9 + k)..(10 + k)) : skeleton(body[i])
            /\ k = 1 =>
                 /\ body[9].tag = "g"
                 /\ body[9].paint = << Url("clip-path", "head-clip") >>
                 /\ body[9].kids = _pattern(p, CX, CY, seed)
                 /\ SubSeq(body, 1, 8) \o SubSeq(body, 10, 11)
                      = _generate_body(dna.traits.BODY_COLOR, "solid", width, height, seed)

\* a body with a clipped, non-empty overlay
C8_Witness ==
    /\ Returned
    /\ dna.traits.PATTERN = "spots"
    /\ Len(result[5]) = 11
    /\ Len(result[5][9].kids) = 10

(***************************************************************************)
(* C9. Totality: every call on a structurally valid DNA and a positive     *)
(* width and height returns a document; no renderer raises.                *)
(***************************************************************************)
C9_Totality == calls > 0 => result # Raise(ZeroDivisionError)

(***************************************************************************)
(* C10. Placement formula: in every family the seeded part of a coordinate *)
(* or size is (seed * (index+1) * multiplier) mod bound, index being the   *)
(* element's zero-based position in its family.                            *)
(***************************************************************************)
C10_PlacementFormula ==
    Returned =>
        LET t     == dna.traits
            scene == Tail(result[3])
            \* Placed(index, multiplier, bound): the claimed seeded value
            Placed(i, mult, bound) == MulMod(seed, (i + 1) * mult, bound)
            overlay == result[5][9].kids
            front == result[8]
            buildings == SelectSeq(scene, LAMBDA e : e.geom[3] = 50)
        IN  /\ t.BACKGROUND = "space" =>
                 \A n \in 1..40 : /\ scene[n].geom[1] = Placed(n - 1, 7, width)
                                  /\ scene[n].geom[2] = Placed(n - 1, 13, height)
            /\ t.BACKGROUND = "forest" =>
                 \A n \in 1..5 :
                    ((height - 20) - scene[2 * n].geom[6]) - 50 = Placed(n - 1, 1, 30)
            /\ t.BACKGROUND = "city" =>
                 \A n \in 1..7 : buildings[n].geom[4] - 70 = Placed(n - 1, 1, 90)
            /\ t.BACKGROUND = "underwater" =>
                 \A n \in 1..15 : /\ scene[n].geom[1] = Placed(n - 1, 17, width)
                                  /\ scene[n].geom[2] = Placed(n - 1, 23, height)
            /\ t.BACKGROUND = "volcano" =>
                 \A n \in 1..6 : scene[n + 1].geom[1] - 30 = Placed(n - 1, 11, width - 60)
            /\ t.PATTERN = "spots" =>
                 \A n \in 1..10 : /\ (overlay[n].geom[1] - CX) + 90 = Placed(n - 1, 7, 180)
                                  /\ (overlay[n].geom[2] - CY) + 90 = Placed(n - 1, 11, 180)
            /\ t.PATTERN = "stars" =>
                 \A n \in 1..8 : /\ (overlay[n].geom[1] - CX) + 80 = Placed(n - 1, 13, 160)
                                 /\ (overlay[n].geom[2] - CY) + 80 = Placed(n - 1, 17, 160)
            /\ t.PATTERN = "hearts" =>
                 \A n \in 1..7 : /\ (overlay[n].geom[1] - CX) + 70 = Placed(n - 1, 19, 140)
                                 /\ (overlay[n].geom[2] - CY) + 70 = Placed(n - 1, 23, 140)
            /\ t.PATTERN = "diamonds" =>
                 \A n \in 1..8 : /\ (overlay[n].geom[1] - CX) + 75 = Placed(n - 1, 11, 150)
                                 /\ (overlay[n].geom[2] - CY) + 75 = Placed(n - 1, 13, 150)
            /\ t.SPECIAL = "particles" =>
                 \A n \in 1..12 : /\ (front[n].geom[1] - CX) + 100 = Placed(n - 1, 13, 200)
                                  /\ (front[n].geom[2] - CY) + 100 = Placed(n - 1, 17, 200)

\* the children of the <defs> element of a returned document
DefsOf(doc) == doc[2][1].kids

\* the definitions of doc that carry identifier id
Defined(doc, id) ==
    { n \in 1..Len(DefsOf(doc)) :
        \E a \in 1..Len(DefsOf(doc)[n].paint) : DefsOf(doc)[n].paint[a] = A("id", id) }

(***************************************************************************)
(* C11. Clip region centred on the canvas: in every returned document, of  *)
(* any width and height, the ellipse of the clip region head-clip has the  *)
(* centre (width div 2, height div 2) and the radii (110, 115) of the head *)
(* ellipse of the body fragment.                                           *)
(***************************************************************************)
C11_ClipCentred ==
    Returned =>
        \A n \in Defined(result, "head-clip") :
            LET clip == DefsOf(result)[n]
            IN  /\ clip.tag = "clipPath"
                /\ Len(clip.kids) = 1
                /\ clip.kids[1].tag = "ellipse"
                /\ clip.kids[1].geom = <<CX, CY, 110, 115>>
                /\ clip.kids[1].geom = result[5][7].geom

\* the pattern vocabulary: the identifiers _pattern names
KnownPatterns ==
    {"spots", "stripes", "stars", "hearts", "diamonds", "swirls", "gradient", "nebula",
     "lightning", "flames", "fractals", "aurora", "quantum", "cosmic_dust", "void"}

(***************************************************************************)
(* C12. Unrecognized patterns render nothing: in a document returned for a *)
(* PATTERN value outside the pattern vocabulary, the body fragment is the  *)
(* body fragment of 'solid' for the same body colour, seed and canvas, and *)
(* holds no group and no clip reference at all.                            *)
(***************************************************************************)
C12_UnknownPatternIsSolid ==
    (Returned /\ dna.traits.PATTERN \notin KnownPatterns) =>
        /\ result[5] = _generate_body(dna.traits.BODY_COLOR, "solid", width, height, seed)
        /\ \A n \in 1..Len(result[5]) :
              /\ result[5][n].tag # "g"
              /\ \A a \in 1..Len(result[5][n].paint) : result[5][n].paint[a].k # "clip-path"

(***************************************************************************)
(* C13. Special-effect slots: in a returned document, 'aura' and 'energy'  *)
(* fill the back slot and leave the front slot empty; 'sparkles', 'glow',  *)
(* 'shadow' and 'particles' leave the back slot empty and fill the front   *)
(* slot; 'transcendent', 'godlike' and 'mythical' put the same halo, one   *)
(* circle of radius 180 about the canvas centre filled with the            *)
(* multiverse gradient, in the back slot and a non-empty front fragment    *)
(* that differs from the front fragment of the other two; every other      *)
(* SPECIAL value leaves both slots empty.                                  *)
(***************************************************************************)
C13_SpecialSlots ==
    Returned =>
        LET sp    == dna.traits.SPECIAL
            back  == result[4]
            front == result[8]
            halo  == << El("circle", <<CX, CY, 180>>,
                           <<Url("fill", "multiverse-gradient"), A("opacity", "0.15")>>) >>
            Ascended == {"transcendent", "godlike", "mythical"}
        IN  CASE sp \in {"aura", "energy"} -> back # <<>> /\ front = <<>>
              [] sp \in {"sparkles", "glow", "shadow", "particles"} ->
                   back = <<>> /\ front # <<>>
              [] sp \in Ascended ->
                   /\ back = halo
                   /\ front # <<>>
                   /\ \A o \in Ascended \ {sp} :
                         front # _generate_special_front(o, width, height, seed)
              [] OTHER -> back = <<>> /\ front = <<>>

\* a document with both slots filled, for the last entry of the halo list
C13_Witness ==
    /\ Returned
    /\ dna.traits.SPECIAL = "mythical"
    /\ result[4] # <<>>
    /\ result[8] # <<>>

\* the parts of a document (positions in svg_parts) that render a category
OwnedBy(c) ==
    CASE c = "BACKGROUND"      -> {3}
      [] c = "SPECIAL"         -> {4, 8}
      [] c = "BODY_COLOR"      -> {5}
      [] c = "PATTERN"         -> {5}
      [] c = "FACE_EXPRESSION" -> {6}
      [] c = "ACCESSORY"       -> {7}

\* the DNAs of the independence check: every mix of known and unknown values
LayerDNAS ==
    { [traits |-> t, dna_hash |-> BaseHash, generation |-> 1, rarity |-> BaseRarity] :
        t \in MixTraits }

InitLayers ==
    /\ BODY_COLORS = BODY_COLORS_0
    /\ BACKGROUNDS = BACKGROUNDS_0
    /\ dna \in LayerDNAS
    /\ op = "none"
    /\ width = 0
    /\ height = 0
    /\ seed = [hi |-> 0, lo |-> 0]
    /\ result = <<>>
    /\ calls = 0

SpecLayers == InitLayers /\ [][Next]_vars

\* the last call made again for the DNA d
Recall(d) ==
    IF op = "generate_thumbnail" THEN generate_thumbnail(d, width)
    ELSE generate_svg(d, width, height)

(***************************************************************************)
(* C14. Layer independence: take a returned document and the document the  *)
(* same call returns for a DNA that differs in the value of one trait only *)
(* (same fingerprint, hence seed, same rarity score, generation, width and *)
(* height).  Every part the changed category does not own is the same in   *)
(* both: BACKGROUND owns the background, BODY_COLOR and PATTERN the body,   *)
(* FACE_EXPRESSION the face, ACCESSORY the accessory, SPECIAL the two       *)
(* special slots; the definitions and the badge are owned by no category.  *)
(* Checked under SpecLayers, the changed trait ranging over the whole      *)
(* vocabulary of its category.                                             *)
(***************************************************************************)
C14_LayerIndependence ==
    Returned =>
        \A c \in DOMAIN Vocabulary :
            \A v \in Vocabulary[c] :
                LET other == Recall([dna EXCEPT !.traits[c] = v])
                IN  other # Raise(ZeroDivisionError) =>
                        /\ Len(other) = Len(result)
                        /\ \A i \in (1..Len(result)) \ OwnedBy(c) : other[i] = result[i]

\* a document whose every owned part changes with some value of its category
C14_Witness ==
    /\ Returned
    /\ \A c \in DOMAIN Vocabulary :
          \E v \in Vocabulary[c] :
              LET other == Recall([dna EXCEPT !.traits[c] = v])
              IN  /\ other # Raise(ZeroDivisionError)
                  /\ \A i \in OwnedBy(c) : other[i] # result[i]

\* the identifiers a fragment references as url(#id), in its elements and below
RECURSIVE RefsOf(_)
RefsOf(els) ==
    UNION { { els[n].paint[a].v : a \in { b \in 1..Len(els[n].paint) : els[n].paint[b].url } }
            \cup RefsOf(els[n].kids) : n \in 1..Len(els) }

\* every identifier a document references
AllRefs(doc) == UNION { RefsOf(doc[i]) : i \in 1..Len(doc) }

(***************************************************************************)
(* C15. Reference integrity: every identifier that any part of a returned  *)
(* document references as url(#id), as a paint, a filter or a clip path,   *)
(* is the id of exactly one definition in the definitions fragment of that *)
(* document.                                                               *)
(***************************************************************************)
C15_ReferenceIntegrity ==
    Returned =>
        \A id \in AllRefs(result) : Cardinality(Defined(result, id)) = 1

\* a document whose body references the clip region, a filter and a gradient
C15_Witness ==
    /\ Returned
    /\ {"head-clip", "shadow"} \subseteq RefsOf(result[5])
    /\ \E id \in RefsOf(result[3]) \cup RefsOf(result[4]) : Defined(result, id) # {}
    /\ Cardinality(AllRefs(result)) >= 3

(***************************************************************************)
(* C16. Placement bounds: in every returned document, star and bubble      *)
(* centres satisfy 0 <= x < width and 0 <= y < height, lava blob centres   *)
(* 30 <= x < width - 30, tree heights lie in 50..79, building heights in   *)
(* 70..159, spot centres within -90..89 of the canvas centre on each axis  *)
(* and particle centres within -100..99 of it.                             *)
(***************************************************************************)
C16_PlacementBounds ==
    Returned =>
        LET t       == dna.traits
            scene   == Tail(result[3])
            overlay == result[5][9].kids
            front   == result[8]
            buildings == SelectSeq(scene, LAMBDA e : e.geom[3] = 50)
            OnCanvas(e) == /\ 0 <= e.geom[1] /\ e.geom[1] < width
                           /\ 0 <= e.geom[2] /\ e.geom[2] < height
            Near(e, lo, hi) == /\ e.geom[1] - CX \in lo..hi
                               /\ e.geom[2] - CY \in lo..hi
        IN  /\ t.BACKGROUND = "space" =>
                 (Len(scene) = 40 /\ \A n \in 1..40 : OnCanvas(scene[n]))
            /\ t.BACKGROUND = "underwater" =>
                 (Len(scene) = 15 /\ \A n \in 1..15 : OnCanvas(scene[n]))
            /\ t.BACKGROUND = "volcano" =>
                 \A n \in 1..6 : /\ 30 <= scene[n + 1].geom[1]
                                 /\ scene[n + 1].geom[1] < width - 30
            /\ t.BACKGROUND = "forest" =>
                 \A n \in 1..5 : ((height - 20) - scene[2 * n].geom[6]) \in 50..79
            /\ t.BACKGROUND = "city" =>
                 (Len(buildings) = 7 /\ \A n \in 1..7 : buildings[n].geom[4] \in 70..159)
            /\ t.PATTERN = "spots" =>
                 (Len(overlay) = 10 /\ \A n \in 1..10 : Near(overlay[n], -90, 89))
            /\ t.SPECIAL = "particles" =>
                 (Len(front) = 12 /\ \A n \in 1..12 : Near(front[n], -100, 99))

====
